---- MODULE Spec2Model ----
(***************************************************************************)
(* The POST handler of the /api/process-pdf route: a logo is decoded, its  *)
(* display dimensions are computed from the requested size, the PDF is     *)
(* loaded, the logo is embedded and drawn page by page, and the document   *)
(* is saved into the response.  One run of the handler is one behaviour.   *)
(*                                                                         *)
(* JavaScript numbers are modelled as exact rationals <<n, d>> in lowest   *)
(* terms (d > 0); the rounding of IEEE doubles is not modelled.            *)
(***************************************************************************)
EXTENDS Integers, Sequences, FiniteSets

(***************************************************************************)
(* Bounds of the model.                                                    *)
(***************************************************************************)
MaxPages == 2
MaxConfigs == 2

(***************************************************************************)
(* Rational arithmetic.                                                    *)
(***************************************************************************)
Abs(n) == IF n < 0 THEN -n ELSE n

RECURSIVE GCD(_, _)
GCD(a, b) == IF b = 0 THEN a ELSE GCD(b, a % b)

Rat(n, d) ==
    LET g == GCD(Abs(n), Abs(d))
        s == IF d < 0 THEN -1 ELSE 1
    IN  <<(s * n) \div g, (s * d) \div g>>

Num(n) == <<n, 1>>
RatSub(a, b) == Rat(a[1] * b[2] - b[1] * a[2], a[2] * b[2])
RatMul(a, b) == Rat(a[1] * b[1], a[2] * b[2])
RatDiv(a, b) == Rat(a[1] * b[2], a[2] * b[1])
RatGeq(a, b) == a[1] * b[2] >= b[1] * a[2]
RatMax(a, b) == IF RatGeq(a, b) THEN a ELSE b

(***************************************************************************)
(* Values of the request body.  A field that is missing from the JSON      *)
(* reads as undefined.                                                     *)
(***************************************************************************)
Position == {"top-left", "top-right", "bottom-left", "bottom-right"}
Undefined == "undefined"
Null == "null"

\* JavaScript truthiness of the values the handler tests
ToBoolean(v) == v \notin {Undefined, Null, "false", ""}

PageConfig(pageNumber, position) ==
    [pageNumber |-> pageNumber, position |-> position]

(***************************************************************************)
(* Logo preparation: sharp's metadata with the || 100 fallbacks, and the   *)
(* display dimensions.                                                     *)
(***************************************************************************)
OriginalWidth(metadata) == IF metadata[1] = 0 THEN 100 ELSE metadata[1]
OriginalHeight(metadata) == IF metadata[2] = 0 THEN 100 ELSE metadata[2]

AspectRatio(originalWidth, originalHeight) == Rat(originalWidth, originalHeight)

DisplayDims_squashed(originalWidth, originalHeight, size) ==
    LET aspectRatio == AspectRatio(originalWidth, originalHeight)
    IN  [width |-> Num(size), height |-> RatDiv(Num(size), aspectRatio)]

DisplayDims_stretched(originalWidth, originalHeight, size) ==
    LET aspectRatio == AspectRatio(originalWidth, originalHeight)
    IN  IF RatGeq(aspectRatio, Num(1))
        THEN [width |-> Num(size), height |-> RatMul(Num(size), aspectRatio)]
        ELSE [width |-> RatMul(Num(size), aspectRatio), height |-> Num(size)]

DisplayDims(originalWidth, originalHeight, size) ==
    LET aspectRatio == AspectRatio(originalWidth, originalHeight)
    IN  IF RatGeq(aspectRatio, Num(1))
        THEN [width |-> Num(size), height |-> RatDiv(Num(size), aspectRatio)]
        ELSE [width |-> RatMul(Num(size), aspectRatio), height |-> Num(size)]

(***************************************************************************)
(* Placement plan: the position of one page, or null.                      *)
(***************************************************************************)
RECURSIVE FindLast(_, _)
FindLast(configs, pageNum) ==
    IF configs = <<>> THEN Undefined
    ELSE IF configs[Len(configs)].pageNumber = pageNum
         THEN configs[Len(configs)].position
         ELSE FindLast(SubSeq(configs, 1, Len(configs) - 1), pageNum)

\* pageConfigs?.find((c) => c.pageNumber === pageNum), then config.position
RECURSIVE Find(_, _)
Find(configs, pageNum) ==
    IF configs = <<>> THEN Undefined
    ELSE IF Head(configs).pageNumber = pageNum
         THEN Head(configs).position
         ELSE Find(Tail(configs), pageNum)

PagePosition_configsOnly(b, pageNum) ==
    LET config == IF b.hasPageConfigs THEN Find(b.pageConfigs, pageNum)
                  ELSE Undefined
    IN  IF config # Undefined THEN config ELSE Null

PagePosition_lastMatch(b, pageNum) ==
    IF ToBoolean(b.applyToAll)
    THEN b.position
    ELSE LET config == IF b.hasPageConfigs
                       THEN FindLast(b.pageConfigs, pageNum)
                       ELSE Undefined
         IN  IF config # Undefined THEN config ELSE Null

PagePosition_fallback(b, pageNum) ==
    IF ToBoolean(b.applyToAll)
    THEN b.position
    ELSE LET config == IF b.hasPageConfigs THEN Find(b.pageConfigs, pageNum)
                       ELSE Undefined
         IN  IF config # Undefined THEN config ELSE b.position

\* compares pageNumber with the loop index instead of the page ordinal
PagePosition_zeroBased(b, pageNum) ==
    IF ToBoolean(b.applyToAll)
    THEN b.position
    ELSE LET config == IF b.hasPageConfigs
                       THEN Find(b.pageConfigs, pageNum - 1)
                       ELSE Undefined
         IN  IF config # Undefined THEN config ELSE Null

\* looks at position alone: a page gets a logo only when applyToAll is set
PagePosition_uniformOnly(b, pageNum) ==
    IF ToBoolean(b.applyToAll) THEN b.position ELSE Null

PagePosition(b, pageNum) ==
    IF ToBoolean(b.applyToAll)
    THEN b.position
    ELSE LET config == IF b.hasPageConfigs THEN Find(b.pageConfigs, pageNum)
                       ELSE Undefined
         IN  IF config # Undefined THEN config ELSE Null

(***************************************************************************)
(* Page geometry: the origin of the logo for a corner position.  A value   *)
(* that matches no case leaves x and y undefined, and drawImage then draws *)
(* at the page's current point (0, 0).                                     *)
(***************************************************************************)
Origin_flipped(width, height, padding, logoDims, pagePosition) ==
    LET left   == Num(padding)
        right  == RatSub(RatSub(Num(width), Num(padding)), logoDims.width)
        bottom == Num(padding)
        top    == RatSub(RatSub(Num(height), Num(padding)), logoDims.height)
    IN  CASE pagePosition = "top-left"     -> [x |-> left,  y |-> bottom]
          [] pagePosition = "top-right"    -> [x |-> right, y |-> bottom]
          [] pagePosition = "bottom-left"  -> [x |-> left,  y |-> top]
          [] pagePosition = "bottom-right" -> [x |-> right, y |-> top]
          [] OTHER                         -> [x |-> Num(0), y |-> Num(0)]

\* keeps the origin on the page: Math.max(0, ...)
Origin_clamped(width, height, padding, logoDims, pagePosition) ==
    LET clamp(r) == IF r[1] < 0 THEN Num(0) ELSE r
        left   == Num(padding)
        right  == RatSub(RatSub(Num(width), Num(padding)), logoDims.width)
        bottom == Num(padding)
        top    == RatSub(RatSub(Num(height), Num(padding)), logoDims.height)
    IN  CASE pagePosition = "top-left" ->
                [x |-> clamp(left), y |-> clamp(top)]
          [] pagePosition = "top-right" ->
                [x |-> clamp(right), y |-> clamp(top)]
          [] pagePosition = "bottom-left" ->
                [x |-> clamp(left), y |-> clamp(bottom)]
          [] pagePosition = "bottom-right" ->
                [x |-> clamp(right), y |-> clamp(bottom)]
          [] OTHER ->
                [x |-> Num(0), y |-> Num(0)]

Origin(width, height, padding, logoDims, pagePosition) ==
    CASE pagePosition = "top-left" ->
            [x |-> Num(padding),
             y |-> RatSub(RatSub(Num(height), Num(padding)), logoDims.height)]
      [] pagePosition = "top-right" ->
            [x |-> RatSub(RatSub(Num(width), Num(padding)), logoDims.width),
             y |-> RatSub(RatSub(Num(height), Num(padding)), logoDims.height)]
      [] pagePosition = "bottom-left" ->
            [x |-> Num(padding), y |-> Num(padding)]
      [] pagePosition = "bottom-right" ->
            [x |-> RatSub(RatSub(Num(width), Num(padding)), logoDims.width),
             y |-> Num(padding)]
      [] OTHER ->
            [x |-> Num(0), y |-> Num(0)]

(***************************************************************************)
(* The state of one run of the handler.                                    *)
(*   body          the parsed request; pdfData stands for the document it  *)
(*                 encodes (its pages' sizes), logoData for the image (its *)
(*                 pixel width and height, 0 where sharp reports none)     *)
(*   pc            the statement the handler is at                         *)
(*   processedLogo pixel dimensions of the PNG buffer sharp produced       *)
(*   logoDims      the display dimensions                                  *)
(*   pdfDoc        the loaded document: its pages, each with the draw      *)
(*                 calls made on it, and its embedded images               *)
(*   i             the loop index                                          *)
(*   pagePosition  the value pagePosition took in each iteration so far    *)
(*   error         the exception caught, "none" while there is none        *)
(*   response      the response returned                                   *)
(***************************************************************************)
VARIABLES body, pc, processedLogo, logoDims, pdfDoc, i, pagePosition,
          error, response

(***************************************************************************)
(* The state of the page component Home (src/app/page.tsx): a record with  *)
(* one field for each useState value and ref the properties speak of, and  *)
(* the positions of its asynchronous callbacks.  The fields are described  *)
(* where the component is modelled; the component is at rest while a       *)
(* handler runs.                                                           *)
(***************************************************************************)
VARIABLE home

vars == <<body, pc, processedLogo, logoDims, pdfDoc, i, pagePosition,
          error, response, home>>

NoResponse ==
    [status |-> 0, contentType |-> "", hasDocument |-> FALSE,
     document |-> [pages |-> <<>>, images |-> <<>>], error |-> ""]

\* new NextResponse(Buffer.from(modifiedPdfBytes), {headers: ...})
PdfResponse(doc) ==
    [status |-> 200, contentType |-> "application/pdf", hasDocument |-> TRUE,
     document |-> doc, error |-> ""]

\* NextResponse.json({ error: ... }, { status: 500 })
ErrorResponse(message) ==
    [status |-> 500, contentType |-> "application/json", hasDocument |-> FALSE,
     document |-> [pages |-> <<>>, images |-> <<>>], error |-> message]

\* the JSON payload of the error response: { error: message }
Payload(r) == [error |-> r.error]

(***************************************************************************)
(* The requests and documents the runs are checked on.                     *)
(***************************************************************************)
PageSizes == {<<612, 792>>, <<300, 300>>, <<40, 30>>}
Logos == {<<400, 200>>, <<5, 4>>, <<200, 400>>, <<0, 0>>}
Sizes == {-50, 0, 100}
Paddings == {-10, 20, 30}
PositionValues == {"top-left", "bottom-right", "center", Undefined}
ConfigPositions == {"top-right", "bottom-left"}

Documents(sizes) == UNION {[1..n -> sizes] : n \in 0..MaxPages}

ConfigLists ==
    LET entries == {PageConfig(n, p) : n \in 1..(MaxPages + 1), p \in ConfigPositions}
    IN  UNION {[1..n -> entries] : n \in 0..MaxConfigs}

Request(pdfData, logoData, size, padding, applyToAll, position, has, configs) ==
    [pdfData |-> pdfData, logoData |-> logoData, size |-> size,
     padding |-> padding, applyToAll |-> applyToAll, position |-> position,
     hasPageConfigs |-> has, pageConfigs |-> configs]

\* every geometry, under a uniform plan or a one-entry per-page plan
GeometryRequests ==
    {Request(d, l, s, p, "true", pos, FALSE, <<>>) :
        d \in Documents(PageSizes), l \in Logos, s \in Sizes, p \in Paddings,
        pos \in Position}
    \cup
    {Request(d, l, s, p, "false", "top-left", TRUE, <<PageConfig(1, pos)>>) :
        d \in Documents(PageSizes), l \in Logos, s \in Sizes, p \in Paddings,
        pos \in Position}

\* every placement plan, under one geometry
PlacementRequests ==
    {Request(d, <<400, 200>>, 100, 20, a, pos, TRUE, c) :
        d \in Documents({<<612, 792>>}), a \in {"true", "false", Undefined},
        pos \in PositionValues, c \in ConfigLists}
    \cup
    {Request(d, <<400, 200>>, 100, 20, a, pos, FALSE, <<>>) :
        d \in Documents({<<612, 792>>}), a \in {"true", "false", Undefined},
        pos \in PositionValues}

\* no file is selected: useState<File | null>(null)
NoFile == 0

\* the component as mounted: the initial value of every useState and useRef
Mounted ==
    [pdfFile |-> NoFile, logoFile |-> Null, position |-> "top-right",
     removeBackground |-> FALSE, processing |-> FALSE,
     bgRemovalProgress |-> Null, pdfPreviewError |-> Null,
     applyToAll |-> TRUE, pageCount |-> 0, pageConfigs |-> <<>>,
     previewPage |-> 1, pdfDocRef |-> NoFile,
     loads |-> {}, rendered |-> [pageCount |-> 0, previewPage |-> 1],
     step |-> "idle"]

Init ==
    /\ home = Mounted
    /\ body \in GeometryRequests \cup PlacementRequests
    /\ pc = "json"
    /\ processedLogo = <<0, 0>>
    /\ logoDims = [width |-> Num(0), height |-> Num(0)]
    /\ pdfDoc = [pages |-> <<>>, images |-> <<>>]
    /\ i = 0
    /\ pagePosition = <<>>
    /\ error = "none"
    /\ response = NoResponse

(***************************************************************************)
(* The handler, statement by statement.  A statement that can throw either *)
(* completes or transfers control to the catch block.                      *)
(***************************************************************************)
JsonError == "Unexpected end of JSON input"
SharpError == "Input buffer contains unsupported image format"
LoadError == "Failed to parse PDF document"
EmbedError == "The input is not a PNG file!"
PageError == "Expected instance of PDFDict"
SaveError == "Failed to serialize document"

Throw(message) ==
    /\ pc' = "catch"
    /\ error' = message

\* request.json(), the destructuring and the two base64 decodes
ParseBody ==
    /\ pc = "json"
    /\ \/ /\ pc' = "sharpPng"
          /\ error' = error
       \/ Throw(JsonError)
    /\ UNCHANGED <<body, processedLogo, logoDims, pdfDoc, i, pagePosition, response>>

\* sharp(logoBytes).png().toBuffer(): a re-encode, no resize
SharpPng ==
    /\ pc = "sharpPng"
    /\ \/ /\ processedLogo' = body.logoData
          /\ pc' = "metadata"
          /\ error' = error
       \/ /\ Throw(SharpError)
          /\ processedLogo' = processedLogo
    /\ UNCHANGED <<body, logoDims, pdfDoc, i, pagePosition, response>>

\* sharp(logoBytes).metadata() and the display dimensions
SharpMetadata ==
    /\ pc = "metadata"
    /\ logoDims' = DisplayDims(OriginalWidth(body.logoData),
                               OriginalHeight(body.logoData), body.size)
    /\ pc' = "load"
    /\ UNCHANGED <<body, processedLogo, pdfDoc, i, pagePosition, error, response>>

\* PDFDocument.load(pdfBytes)
LoadPdf ==
    /\ pc = "load"
    /\ \/ /\ pdfDoc' = [pages |-> [n \in 1..Len(body.pdfData) |->
                                     [width |-> body.pdfData[n][1],
                                      height |-> body.pdfData[n][2],
                                      draws |-> <<>>]],
                       images |-> <<>>]
          /\ pc' = "embed"
          /\ error' = error
       \/ /\ Throw(LoadError)
          /\ pdfDoc' = pdfDoc
    /\ UNCHANGED <<body, processedLogo, logoDims, i, pagePosition, response>>

\* pdfDoc.embedPng(processedLogo), then getPages() and let i = 0
EmbedPng ==
    /\ pc = "embed"
    /\ \/ /\ pdfDoc' = [pdfDoc EXCEPT !.images = Append(@, processedLogo)]
          /\ i' = 0
          /\ pc' = "loop"
          /\ error' = error
       \/ /\ Throw(EmbedError)
          /\ UNCHANGED <<pdfDoc, i>>
    /\ UNCHANGED <<body, processedLogo, logoDims, pagePosition, response>>

\* draws on a page added to the document instead of on the page itself
DrawImage_onNewPage(doc, pageNum, image, origin, dims) ==
    [doc EXCEPT !.pages =
        Append(@, [width |-> doc.pages[pageNum].width,
                   height |-> doc.pages[pageNum].height,
                   draws |-> <<[image |-> image, x |-> origin.x, y |-> origin.y,
                                width |-> dims.width, height |-> dims.height]>>])]

\* page.drawImage(pngImage, {x, y, width, height}) on page pageNum
DrawImage(doc, pageNum, image, origin, dims) ==
    [doc EXCEPT !.pages[pageNum].draws =
        Append(@, [image |-> image, x |-> origin.x, y |-> origin.y,
                   width |-> dims.width, height |-> dims.height])]

\* an iteration that ends at the continue
SkipPage ==
    /\ pc = "loop"
    /\ i < Len(pdfDoc.pages)
    /\ ~ToBoolean(PagePosition(body, i + 1))
    /\ pagePosition' = Append(pagePosition, PagePosition(body, i + 1))
    /\ i' = i + 1
    /\ UNCHANGED <<body, pc, processedLogo, logoDims, pdfDoc, error, response>>

RECURSIVE DrawEach(_, _, _, _)
DrawEach(doc, pageNum, configs, dims) ==
    IF configs = <<>> THEN doc
    ELSE DrawEach(DrawImage(doc, pageNum, Len(doc.images),
                            Origin(doc.pages[pageNum].width,
                                   doc.pages[pageNum].height,
                                   body.padding, dims, Head(configs).position),
                            dims),
                  pageNum, Tail(configs), dims)

\* draws once for every entry of pageConfigs that names the page
DrawPage_everyMatch ==
    /\ pc = "loop"
    /\ i < Len(pdfDoc.pages)
    /\ ToBoolean(PagePosition(body, i + 1))
    /\ pagePosition' = Append(pagePosition, PagePosition(body, i + 1))
    /\ pdfDoc' = IF ToBoolean(body.applyToAll)
                 THEN DrawEach(pdfDoc, i + 1,
                               <<PageConfig(i + 1, body.position)>>, logoDims)
                 ELSE DrawEach(pdfDoc, i + 1,
                               SelectSeq(body.pageConfigs,
                                         LAMBDA c : c.pageNumber = i + 1),
                               logoDims)
    /\ i' = i + 1
    /\ UNCHANGED <<body, pc, processedLogo, logoDims, error, response>>

\* embeds the logo again for every page it draws on
DrawPage_reembed ==
    /\ pc = "loop"
    /\ i < Len(pdfDoc.pages)
    /\ ToBoolean(PagePosition(body, i + 1))
    /\ pagePosition' = Append(pagePosition, PagePosition(body, i + 1))
    /\ pdfDoc' = DrawImage([pdfDoc EXCEPT !.images = Append(@, processedLogo)],
                           i + 1, Len(pdfDoc.images) + 1,
                           Origin(pdfDoc.pages[i + 1].width,
                                  pdfDoc.pages[i + 1].height,
                                  body.padding, logoDims,
                                  PagePosition(body, i + 1)),
                           logoDims)
    /\ i' = i + 1
    /\ UNCHANGED <<body, pc, processedLogo, logoDims, error, response>>

\* an iteration that reaches drawImage
DrawPage ==
    /\ pc = "loop"
    /\ i < Len(pdfDoc.pages)
    /\ ToBoolean(PagePosition(body, i + 1))
    /\ pagePosition' = Append(pagePosition, PagePosition(body, i + 1))
    /\ \/ /\ pdfDoc' = DrawImage(pdfDoc, i + 1, Len(pdfDoc.images),
                                 Origin(pdfDoc.pages[i + 1].width,
                                        pdfDoc.pages[i + 1].height,
                                        body.padding, logoDims,
                                        PagePosition(body, i + 1)),
                                 logoDims)
          /\ i' = i + 1
          /\ UNCHANGED <<pc, error>>
       \/ /\ Throw(PageError)
          /\ UNCHANGED <<pdfDoc, i>>
    /\ UNCHANGED <<body, processedLogo, logoDims, response>>

\* pdfDoc.save() and the PDF response
Save ==
    /\ pc = "loop"
    /\ i >= Len(pdfDoc.pages)
    /\ \/ /\ response' = PdfResponse(pdfDoc)
          /\ pc' = "done"
          /\ error' = error
       \/ /\ Throw(SaveError)
          /\ response' = response
    /\ UNCHANGED <<body, processedLogo, logoDims, pdfDoc, i, pagePosition>>

\* a catch block that returns what has been drawn so far
Catch_partial ==
    /\ pc = "catch"
    /\ response' = IF error = PageError THEN PdfResponse(pdfDoc)
                   ELSE ErrorResponse(error)
    /\ pc' = "done"
    /\ UNCHANGED <<body, processedLogo, logoDims, pdfDoc, i, pagePosition, error>>

\* a catch block that rethrows: the exception leaves the handler
Catch_rethrow ==
    /\ pc = "catch"
    /\ pc' = "done"
    /\ UNCHANGED <<body, processedLogo, logoDims, pdfDoc, i, pagePosition,
                   error, response>>

\* a catch block that starts the run again
Catch_retry ==
    /\ pc = "catch"
    /\ pc' = "sharpPng"
    /\ error' = "none"
    /\ UNCHANGED <<body, processedLogo, logoDims, pdfDoc, i, pagePosition, response>>

\* the catch block
Catch ==
    /\ pc = "catch"
    /\ response' = ErrorResponse(error)
    /\ pc' = "done"
    /\ UNCHANGED <<body, processedLogo, logoDims, pdfDoc, i, pagePosition, error>>

Next ==
    \/ ParseBody /\ UNCHANGED home
    \/ SharpPng /\ UNCHANGED home
    \/ SharpMetadata /\ UNCHANGED home
    \/ LoadPdf /\ UNCHANGED home
    \/ EmbedPng /\ UNCHANGED home
    \/ SkipPage /\ UNCHANGED home
    \/ DrawPage /\ UNCHANGED home
    \/ Save /\ UNCHANGED home
    \/ Catch /\ UNCHANGED home

Spec == Init /\ [][Next]_vars

(***************************************************************************)
(* The second route handler (src/unnamed/part_000).  It differs from the   *)
(* first in the logo: sharp resizes it to fit size x size, never enlarging *)
(* it, and the logo is drawn at the dimensions of the embedded image.      *)
(* There is no metadata step.                                              *)
(***************************************************************************)
ResizeError == "Expected positive integer for width but received 0 of type number"

\* n / d rounded to the nearest integer, at least 1
RoundDiv(n, d) ==
    LET q == (2 * n + d) \div (2 * d)
    IN  IF q < 1 THEN 1 ELSE q

\* resize(size, size, { fit: "inside", withoutEnlargement: true })
Resize(w, h, size) ==
    IF w <= size /\ h <= size THEN <<w, h>>
    ELSE IF w >= h THEN <<size, RoundDiv(h * size, w)>>
    ELSE <<RoundDiv(w * size, h), size>>

\* sharp(logoBytes).resize(...).png().toBuffer()
SharpResizePng ==
    /\ pc = "sharpPng"
    /\ \/ /\ body.size > 0
          /\ processedLogo' = Resize(body.logoData[1], body.logoData[2], body.size)
          /\ pc' = "load"
          /\ error' = error
       \/ /\ body.size <= 0
          /\ Throw(ResizeError)
          /\ processedLogo' = processedLogo
       \/ /\ Throw(SharpError)
          /\ processedLogo' = processedLogo
    /\ UNCHANGED <<body, logoDims, pdfDoc, i, pagePosition, response>>

\* pdfDoc.embedPng(processedLogo), pngImage.scale(1), getPages() and let i = 0
EmbedPngScale ==
    /\ pc = "embed"
    /\ \/ /\ pdfDoc' = [pdfDoc EXCEPT !.images = Append(@, processedLogo)]
          /\ logoDims' = [width |-> Num(processedLogo[1]),
                          height |-> Num(processedLogo[2])]
          /\ i' = 0
          /\ pc' = "loop"
          /\ error' = error
       \/ /\ Throw(EmbedError)
          /\ UNCHANGED <<pdfDoc, logoDims, i>>
    /\ UNCHANGED <<body, processedLogo, pagePosition, response>>

ResizeLogos == {<<400, 200>>, <<200, 400>>, <<50, 30>>, <<300, 700>>}

ResizeRequests ==
    {Request(d, l, s, 20, "true", pos, FALSE, <<>>) :
        d \in Documents({<<612, 792>>, <<40, 30>>}), l \in ResizeLogos,
        s \in {0, 100}, pos \in {"top-left", "bottom-right"}}
    \cup
    {Request(d, l, s, 20, a, "top-right", TRUE, <<PageConfig(1, "bottom-left")>>) :
        d \in Documents({<<612, 792>>, <<40, 30>>}), l \in ResizeLogos,
        s \in {0, 100}, a \in {"false", Undefined}}

InitResize ==
    /\ home = Mounted
    /\ body \in ResizeRequests
    /\ pc = "json"
    /\ processedLogo = <<0, 0>>
    /\ logoDims = [width |-> Num(0), height |-> Num(0)]
    /\ pdfDoc = [pages |-> <<>>, images |-> <<>>]
    /\ i = 0
    /\ pagePosition = <<>>
    /\ error = "none"
    /\ response = NoResponse

NextResize ==
    \/ ParseBody /\ UNCHANGED home
    \/ SharpResizePng /\ UNCHANGED home
    \/ LoadPdf /\ UNCHANGED home
    \/ EmbedPngScale /\ UNCHANGED home
    \/ SkipPage /\ UNCHANGED home
    \/ DrawPage /\ UNCHANGED home
    \/ Save /\ UNCHANGED home
    \/ Catch /\ UNCHANGED home

SpecResize == InitResize /\ [][NextResize]_vars

(***************************************************************************)
(* Properties of the handler.                                              *)
(***************************************************************************)
\* the display dimensions have been computed in this run
DimsComputed ==
    \/ pc \in {"load", "embed", "loop"}
    \/ pc \in {"catch", "done"} /\ error \notin {JsonError, SharpError}

\* r = n / d and r = k - q, for rationals r and q in lowest terms
IsQuotient(r, n, d) == r[1] * d = n * r[2]
IsDifference(r, k, q) == r[1] * q[2] = r[2] * (k * q[2] - q[1])

IntrinsicDims == body.logoData[1] > 0 /\ body.logoData[2] > 0

\* C1: for a logo with intrinsic dimensions (w, h) and a size > 0, if
\* w/h >= 1 then displayWidth = size and displayHeight = size / (w/h),
\* otherwise displayHeight = size and displayWidth = size * (w/h); in both
\* branches the larger of the two equals size.
C1_DisplayDimsBranchRule ==
    (DimsComputed /\ IntrinsicDims /\ body.size > 0) =>
        LET w == body.logoData[1]
            h == body.logoData[2]
        IN  /\ w >= h =>
                /\ logoDims.width = <<body.size, 1>>
                /\ IsQuotient(logoDims.height, body.size * h, w)
            /\ w < h =>
                /\ logoDims.height = <<body.size, 1>>
                /\ IsQuotient(logoDims.width, body.size * w, h)
            /\ RatMax(logoDims.width, logoDims.height) = <<body.size, 1>>

\* a tall logo (200 x 400) at size 100 is displayed 50 wide and 100 high, and
\* a wide one (400 x 200) 100 wide and 50 high
C1_Witness_Tall ==
    /\ pc = "loop"
    /\ body.logoData = <<200, 400>>
    /\ body.size = 100
    /\ logoDims = [width |-> <<50, 1>>, height |-> <<100, 1>>]

\* C2: for every logo (w, h) with w, h > 0 and every size > 0 the display
\* dimensions keep the aspect ratio: displayWidth * h = displayHeight * w.
C2_AspectRatioPreserved ==
    (DimsComputed /\ IntrinsicDims /\ body.size > 0) =>
        /\ logoDims.width[1] > 0
        /\ logoDims.height[1] > 0
        /\ logoDims.width[1] * logoDims.height[2] * body.logoData[2]
             = logoDims.height[1] * logoDims.width[2] * body.logoData[1]

\* a 5 x 4 logo at size 100 is displayed 100 x 80
C2_Witness_FiveByFour ==
    /\ DimsComputed
    /\ body.logoData = <<5, 4>>
    /\ body.size = 100
    /\ logoDims = [width |-> <<100, 1>>, height |-> <<80, 1>>]

\* the draw call made on page p, when one was made
DrawOn(p) == pdfDoc.pages[p].draws[1]

\* the table of the four corners, for a draw call d on a page of the given size
AtCorner(d, position, pageWidth, pageHeight) ==
    /\ position \in {"top-left", "bottom-left"} => d.x = <<body.padding, 1>>
    /\ position \in {"top-right", "bottom-right"} =>
          IsDifference(d.x, pageWidth - body.padding, d.width)
    /\ position \in {"bottom-left", "bottom-right"} => d.y = <<body.padding, 1>>
    /\ position \in {"top-left", "top-right"} =>
          IsDifference(d.y, pageHeight - body.padding, d.height)

\* C3: for each of the four positions the draw origin is the table value:
\* top-left (padding, pageHeight - padding - displayHeight), top-right
\* (pageWidth - padding - displayWidth, pageHeight - padding - displayHeight),
\* bottom-left (padding, padding), bottom-right (pageWidth - padding -
\* displayWidth, padding); on a 612 x 792 page with a 100 x 80 logo and
\* padding 30, top-right is (482, 682).
C3_OriginMatchesTable ==
    \A p \in 1..Len(pdfDoc.pages) :
        (pdfDoc.pages[p].draws # <<>> /\ pagePosition[p] \in Position) =>
            LET d == DrawOn(p)
                page == body.pdfData[p]
            IN  /\ d.width = logoDims.width
                /\ d.height = logoDims.height
                /\ AtCorner(d, pagePosition[p], page[1], page[2])
                /\ ( /\ page = <<612, 792>>
                     /\ d.width = <<100, 1>>
                     /\ d.height = <<80, 1>>
                     /\ body.padding = 30
                     /\ pagePosition[p] = "top-right" )
                   => (d.x = <<482, 1>> /\ d.y = <<682, 1>>)

\* the literal case is drawn: 612 x 792, logo 100 x 80, padding 30, top-right
C3_Witness_TopRight ==
    /\ pc = "done"
    /\ response.hasDocument
    /\ body.padding = 30
    /\ body.position = "top-right"
    /\ body.pdfData # <<>>
    /\ body.pdfData[1] = <<612, 792>>
    /\ pdfDoc.pages[1].draws =
          <<[image |-> 1, x |-> <<482, 1>>, y |-> <<682, 1>>,
             width |-> <<100, 1>>, height |-> <<80, 1>>]>>

UniformMode == body.applyToAll = "true" /\ body.position \in Position
PerPageMode == ~ToBoolean(body.applyToAll)

\* the entries of pageConfigs that name page p
Matching(p) ==
    IF body.hasPageConfigs
    THEN {k \in 1..Len(body.pageConfigs) : body.pageConfigs[k].pageNumber = p}
    ELSE {}

C5_FirstMatchingEntryGoverns ==
    PerPageMode =>
        \A p \in 1..Len(pagePosition) :
            Matching(p) # {} =>
                LET first == CHOOSE k \in Matching(p) :
                                 \A j \in Matching(p) : k <= j
                IN  /\ pagePosition[p] = body.pageConfigs[first].position
                    /\ pdfDoc.pages[p].draws # <<>> =>
                          AtCorner(DrawOn(p), body.pageConfigs[first].position,
                                   body.pdfData[p][1], body.pdfData[p][2])

\* two entries for page 1, top-right then bottom-left: the run succeeds and
\* page 1 is drawn top-right
C5_Witness_Duplicate ==
    /\ PerPageMode
    /\ body.hasPageConfigs
    /\ body.pageConfigs = <<PageConfig(1, "top-right"), PageConfig(1, "bottom-left")>>
    /\ response.hasDocument
    /\ Len(response.document.pages) >= 1
    /\ response.document.pages[1].draws # <<>>
    /\ response.document.pages[1].draws[1].x = <<492, 1>>
    /\ response.document.pages[1].draws[1].y = <<722, 1>>

\* the page as PDFDocument.load produced it
Untouched(p) ==
    [width |-> body.pdfData[p][1], height |-> body.pdfData[p][2], draws |-> <<>>]

\* an iteration on a page that no entry of pageConfigs names
AtUnmatchedPage ==
    /\ pc = "loop"
    /\ i < Len(pdfDoc.pages)
    /\ PerPageMode
    /\ Matching(i + 1) = {}

\* C6: in PerPage mode a page that no entry names (pageConfigs empty or absent
\* included) never receives a draw call and stays as loaded, in the document
\* in memory and in the one returned; and its iteration only moves on to the
\* next page: it draws nothing and raises nothing.
C6_UnmatchedPageSkipped ==
    /\ [](PerPageMode =>
            /\ \A p \in 1..Len(pdfDoc.pages) :
                  Matching(p) = {} => pdfDoc.pages[p] = Untouched(p)
            /\ response.hasDocument =>
                  \A p \in 1..Len(body.pdfData) :
                      Matching(p) = {} => response.document.pages[p] = Untouched(p))
    /\ [][AtUnmatchedPage =>
            /\ pc' = "loop"
            /\ i' = i + 1
            /\ pdfDoc' = pdfDoc
            /\ error' = "none"]_vars

\* a two-page document with an entry for page 1 only comes back with page 1
\* drawn on and page 2 as loaded
C6_Witness_PageTwoSkipped ==
    /\ PerPageMode
    /\ Len(body.pdfData) = 2
    /\ Matching(1) # {}
    /\ Matching(2) = {}
    /\ response.hasDocument
    /\ response.document.pages[1].draws # <<>>
    /\ response.document.pages[2] = Untouched(2)

\* C7: in every run, in either mode and for any pageConfigs (duplicate page
\* numbers included), each page receives at most one draw call.
C7_AtMostOneDrawPerPage ==
    /\ \A p \in 1..Len(pdfDoc.pages) : Len(pdfDoc.pages[p].draws) <= 1
    /\ \A p \in 1..Len(response.document.pages) :
          Len(response.document.pages[p].draws) <= 1

\* page 2 is named twice and is drawn once
C7_Witness_DuplicateDrawnOnce ==
    /\ PerPageMode
    /\ Cardinality(Matching(2)) = 2
    /\ response.hasDocument
    /\ Len(response.document.pages) = 2
    /\ Len(response.document.pages[2].draws) = 1

\* the draw calls of a document
AllDraws(doc) ==
    UNION {{doc.pages[p].draws[k] : k \in 1..Len(doc.pages[p].draws)} :
              p \in 1..Len(doc.pages)}

\* C8: the logo is embedded once per run, before the page loop: no image is
\* embedded and nothing is drawn before the loop, the document holds exactly
\* one embedded image throughout the loop and in the response, whatever the
\* number of pages drawn, and every draw call references that one image.
C8_OneEmbeddedImage ==
    /\ pc \in {"json", "sharpPng", "metadata", "load", "embed"} =>
          pdfDoc.images = <<>> /\ AllDraws(pdfDoc) = {}
    /\ pc = "loop" => Len(pdfDoc.images) = 1
    /\ Len(pdfDoc.images) <= 1
    /\ \A d \in AllDraws(pdfDoc) : d.image = 1 /\ Len(pdfDoc.images) = 1
    /\ response.hasDocument =>
          /\ Len(response.document.images) = 1
          /\ \A d \in AllDraws(response.document) : d.image = 1

\* two pages drawn, one image embedded
C8_Witness_TwoDrawsOneImage ==
    /\ response.hasDocument
    /\ Len(response.document.images) = 1
    /\ Len(response.document.pages) = 2
    /\ \A p \in 1..2 :
          /\ Len(response.document.pages[p].draws) = 1
          /\ response.document.pages[p].draws[1].image = 1

\* C9: document bytes are produced only after the whole page loop has
\* succeeded: a response carries a document only when no exception was raised
\* and the loop has passed every page; a run in which a page fails ends with
\* the error response and no document, although earlier pages were drawn on.
C9_DocumentOnlyAfterLoop ==
    /\ response.hasDocument =>
          /\ pc = "done"
          /\ error = "none"
          /\ i = Len(pdfDoc.pages)
          /\ Len(pagePosition) = Len(pdfDoc.pages)
          /\ response.document = pdfDoc
    /\ error # "none" => ~response.hasDocument
    /\ (pc = "done" /\ error # "none") =>
          /\ response.status = 500
          /\ response.error = error

\* page 2 fails after page 1 was drawn on: the run returns the error only
C9_Witness_FailedMidLoop ==
    /\ pc = "done"
    /\ error = PageError
    /\ i = 1
    /\ Len(pdfDoc.pages[1].draws) = 1
    /\ ~response.hasDocument
    /\ response.status = 500

InvalidParameter == body.size <= 0 \/ body.padding < 0

\* C10: a request with size <= 0 or padding < 0 fails with an
\* invalid-parameter error at once: no logo is embedded, no page is drawn and
\* no document is returned.
C10_InvalidParameterRejected ==
    InvalidParameter =>
        /\ pdfDoc.images = <<>>
        /\ AllDraws(pdfDoc) = {}
        /\ ~response.hasDocument

\* C11: a position outside the four values (in Uniform mode or in a matching
\* entry) is rejected as an error before coordinates are computed: every draw
\* call is made for one of the four positions, at its table origin, and a
\* run whose page position is not one of the four returns no document.
C11_UnrecognizedPositionRejected ==
    /\ \A p \in 1..Len(pdfDoc.pages) :
          pdfDoc.pages[p].draws # <<>> =>
              /\ pagePosition[p] \in Position
              /\ AtCorner(DrawOn(p), pagePosition[p],
                          body.pdfData[p][1], body.pdfData[p][2])
    /\ (ToBoolean(body.applyToAll) /\ body.position \notin Position) =>
          ~response.hasDocument

\* the two outcomes of a run
IsSuccess(r) ==
    /\ r.status = 200
    /\ r.contentType = "application/pdf"
    /\ r.hasDocument
    /\ r.error = ""

IsFailure(r) ==
    /\ r.status >= 400
    /\ r.contentType = "application/json"
    /\ ~r.hasDocument
    /\ r.error # ""

\* C12: every run ends in exactly one of two outcomes, the PDF response
\* (content type application/pdf) or the JSON error {error: message} with a
\* failure status: a run that has not returned can always take a step, and
\* a run that has returned has one of the two, a failure exactly when an
\* exception was caught.
C12_ExactlyOneOutcome ==
    /\ pc # "done" => (response = NoResponse /\ ENABLED Next)
    /\ pc = "done" =>
          /\ IsSuccess(response) \/ IsFailure(response)
          /\ ~(IsSuccess(response) /\ IsFailure(response))
          /\ IsFailure(response) <=> error # "none"

\* a run that failed at save ends with the JSON error
C12_Witness_FailureAtSave ==
    /\ pc = "done"
    /\ error = SaveError
    /\ IsFailure(response)
    /\ response.error = SaveError

\* the request of the end-to-end scenario
Scenario ==
    Request(<<<<612, 792>>, <<300, 300>>>>, <<400, 200>>, 100, 20, "false",
            "top-left", TRUE, <<PageConfig(1, "bottom-left")>>)

\* C13: for the 2-page document (612 x 792, 300 x 300), a 400 x 200 logo,
\* size 100, padding 20 and the single entry {1, bottom-left}, the run makes
\* exactly one draw call, on page 1, at (20, 20) with width 100 and height
\* 50; page 2 has none.
C13_EndToEndScenario ==
    body = Scenario =>
        /\ \A p \in 1..Len(pdfDoc.pages) :
              pdfDoc.pages[p].draws =
                  IF p = 1 /\ i >= 1
                  THEN <<[image |-> 1, x |-> <<20, 1>>, y |-> <<20, 1>>,
                          width |-> <<100, 1>>, height |-> <<50, 1>>]>>
                  ELSE <<>>
        /\ response.hasDocument =>
              /\ response.document.pages[1].draws =
                    <<[image |-> 1, x |-> <<20, 1>>, y |-> <<20, 1>>,
                       width |-> <<100, 1>>, height |-> <<50, 1>>]>>
              /\ response.document.pages[2].draws = <<>>

\* the scenario's run returns the document
C13_Witness_ScenarioDone ==
    /\ body = Scenario
    /\ pc = "done"
    /\ response.hasDocument
    /\ Len(response.document.pages[1].draws) = 1
    /\ response.document.pages[2].draws = <<>>

\* padding + displayWidth > pageWidth, and padding + displayHeight > pageHeight
TooWide(p) ==
    logoDims.width[1] > (body.pdfData[p][1] - body.padding) * logoDims.width[2]

TooHigh(p) ==
    logoDims.height[1] > (body.pdfData[p][2] - body.padding) * logoDims.height[2]

\* C14: no clamping: when padding + displayWidth > pageWidth or padding +
\* displayHeight > pageHeight the draw call is still made at the table's
\* origin, so x is negative at a right corner of a page that is too narrow
\* and y is negative at a top corner of a page that is too low.
C14_NoClamping ==
    \A p \in 1..Len(pdfDoc.pages) :
        ( /\ pdfDoc.pages[p].draws # <<>>
          /\ pagePosition[p] \in Position
          /\ TooWide(p) \/ TooHigh(p) ) =>
            LET d == DrawOn(p)
            IN  /\ AtCorner(d, pagePosition[p], body.pdfData[p][1], body.pdfData[p][2])
                /\ (TooWide(p) /\ pagePosition[p] \in {"top-right", "bottom-right"})
                      => d.x[1] < 0
                /\ (TooHigh(p) /\ pagePosition[p] \in {"top-left", "top-right"})
                      => d.y[1] < 0

\* a 100 x 50 logo, padding 20, top-right on a 40 x 30 page: drawn at
\* (-80, -40) and the document is returned
C14_Witness_NegativeOrigin ==
    /\ pc = "done"
    /\ response.hasDocument
    /\ body.pdfData # <<>>
    /\ body.pdfData[1] = <<40, 30>>
    /\ body.position = "top-right"
    /\ response.document.pages[1].draws # <<>>
    /\ response.document.pages[1].draws[1].x = <<-80, 1>>
    /\ response.document.pages[1].draws[1].y = <<-40, 1>>

\* C15: preparing the logo is a re-encode, not a resize: the embedded image
\* has the source logo's pixel dimensions (w, h) for every size, and every
\* draw call has the computed display dimensions as its width and height.
C15_PassThroughReencode ==
    /\ pdfDoc.images # <<>> => pdfDoc.images[1] = body.logoData
    /\ \A d \in AllDraws(pdfDoc) :
          LET dims == DisplayDims(OriginalWidth(body.logoData),
                                  OriginalHeight(body.logoData), body.size)
          IN  d.width = dims.width /\ d.height = dims.height

\* C16: when the document bytes or the logo bytes cannot be decoded, the
\* failure is returned with a client-error (4xx) status and a message, and
\* the decode is not attempted again.
C16_DecodeErrorIsClientError ==
    (pc = "done" /\ error \in {SharpError, LoadError}) =>
        /\ response.status \in 400..499
        /\ response.error = error
        /\ ~response.hasDocument

\* the page ordinal the error payload names, 0 when it names none
PageOrdinal(r) ==
    IF "pageOrdinal" \in DOMAIN Payload(r) THEN Payload(r).pageOrdinal ELSE 0

\* C17: when reading or drawing on page k fails, the run is aborted with no
\* document returned, and the failure reported names the page ordinal k.
C17_PageErrorNamesOrdinal ==
    (pc = "done" /\ error = PageError) =>
        /\ ~response.hasDocument
        /\ response.status >= 400
        /\ PageOrdinal(response) = i + 1

\* the document has been loaded in this run
Loaded ==
    \/ pc \in {"embed", "loop"}
    \/ pc \in {"catch", "done"} /\ error \in {"none", EmbedError, PageError, SaveError}

\* the sizes of a document's pages, in order
PageSizesOf(doc) ==
    [p \in 1..Len(doc.pages) |-> <<doc.pages[p].width, doc.pages[p].height>>]

\* C18: the document has the same pages, in the same order, before and after
\* compositing, in both modes: once loaded, and in the document returned,
\* the number of pages and each page's size are those of the input, and a
\* step of the loop changes nothing of a page but its draw calls.
C18_PageCountImmutable ==
    /\ [](/\ Loaded => PageSizesOf(pdfDoc) = body.pdfData
          /\ response.hasDocument => PageSizesOf(response.document) = body.pdfData)
    /\ [][pc = "loop" =>
            /\ Len(pdfDoc'.pages) = Len(pdfDoc.pages)
            /\ PageSizesOf(pdfDoc') = PageSizesOf(pdfDoc)
            /\ \A p \in 1..Len(pdfDoc.pages) :
                  \/ pdfDoc'.pages[p].draws = pdfDoc.pages[p].draws
                  \/ /\ p = i + 1
                     /\ Len(pdfDoc'.pages[p].draws) = Len(pdfDoc.pages[p].draws) + 1]_vars

\* a two-page document with two different page sizes comes back drawn on,
\* with its two pages in order
C18_Witness_TwoPagesKept ==
    /\ response.hasDocument
    /\ body.pdfData = <<<<300, 300>>, <<612, 792>>>>
    /\ PageSizesOf(response.document) = <<<<300, 300>>, <<612, 792>>>>
    /\ Len(response.document.pages[1].draws) = 1
    /\ Len(response.document.pages[2].draws) = 1

\* the order of the handler's statements
Rank(l) ==
    CASE l = "json" -> 0
      [] l = "sharpPng" -> 1
      [] l = "metadata" -> 2
      [] l = "load" -> 3
      [] l = "embed" -> 4
      [] l = "loop" -> 5
      [] l = "catch" -> 6
      [] l = "done" -> 7

\* C19: there is no retry: every step moves the run forward (the logo
\* decode, the document load, the embed and the save are each passed at most
\* once; the loop only moves to the next page), the first exception goes
\* straight to the catch block, and the catch block returns that exception
\* as the one failure response.
C19_NoRetry ==
    [][/\ \/ Rank(pc') > Rank(pc)
          \/ pc = "loop" /\ pc' = "loop" /\ i' = i + 1
       /\ error # "none" => (error' = error /\ pc' = "done")
       /\ (error = "none" /\ error' # "none") => pc' = "catch"
       /\ pc = "catch" => response' = ErrorResponse(error)
       /\ response # NoResponse => response' = response]_vars

\* the document failed to load: the run ended with that error, and nothing
\* after the load was attempted
C19_Witness_LoadFailedOnce ==
    /\ pc = "done"
    /\ error = LoadError
    /\ response = ErrorResponse(LoadError)
    /\ pdfDoc.images = <<>>
    /\ processedLogo = body.logoData

\* the body the single-position client sends: pdfData, logoData, position,
\* size and padding only
SinglePositionRequest(pdfData, logoData, position, size, padding) ==
    Request(pdfData, logoData, size, padding, Undefined, position, FALSE, <<>>)

FromSinglePositionClient ==
    /\ body.position \in Position
    /\ body = SinglePositionRequest(body.pdfData, body.logoData, body.position,
                                    body.size, body.padding)

\* C20: for a request built by the single-position client (no applyToAll, no
\* pageConfigs) the logo is added to all pages of the document.
C20_SinglePositionClientDrawsAll ==
    (FromSinglePositionClient /\ response.hasDocument) =>
        \A p \in 1..Len(response.document.pages) :
            Len(response.document.pages[p].draws) = 1

(***************************************************************************)
(* The page loop of the second handler (src/unnamed/part_000), written as  *)
(* a function of the request, the pages and the logo dimensions in hand.   *)
(***************************************************************************)
\* let pagePosition = null; if (applyToAll) ... else { find ... }
PagePositionResize(b, pageNum) ==
    IF ToBoolean(b.applyToAll)
    THEN b.position
    ELSE LET config == IF b.hasPageConfigs THEN Find(b.pageConfigs, pageNum)
                       ELSE Undefined
         IN  IF config # Undefined THEN config ELSE Null

\* the switch over the four corners; x and y stay undefined otherwise
OriginResize(width, height, padding, dims, corner) ==
    CASE corner = "top-left" ->
            [x |-> Num(padding),
             y |-> RatSub(RatSub(Num(height), Num(padding)), dims.height)]
      [] corner = "top-right" ->
            [x |-> RatSub(RatSub(Num(width), Num(padding)), dims.width),
             y |-> RatSub(RatSub(Num(height), Num(padding)), dims.height)]
      [] corner = "bottom-left" ->
            [x |-> Num(padding), y |-> Num(padding)]
      [] corner = "bottom-right" ->
            [x |-> RatSub(RatSub(Num(width), Num(padding)), dims.width),
             y |-> Num(padding)]
      [] OTHER ->
            [x |-> Num(0), y |-> Num(0)]

\* the draw calls of the iterations for pages pageNum, pageNum + 1, ... in
\* the order the loop makes them
RECURSIVE DrawCallsResize(_, _, _, _)
DrawCallsResize(b, pages, dims, pageNum) ==
    IF pageNum > Len(pages) THEN <<>>
    ELSE LET corner == PagePositionResize(b, pageNum)
             origin == OriginResize(pages[pageNum].width, pages[pageNum].height,
                                    b.padding, dims, corner)
         IN  IF ~ToBoolean(corner)
             THEN DrawCallsResize(b, pages, dims, pageNum + 1)
             ELSE <<[page |-> pageNum, x |-> origin.x, y |-> origin.y,
                     width |-> dims.width, height |-> dims.height]>>
                  \o DrawCallsResize(b, pages, dims, pageNum + 1)

\* the draw calls recorded on pages 1..n of a document, page by page
RECURSIVE DrawCallsOf(_, _)
DrawCallsOf(doc, n) ==
    IF n = 0 THEN <<>>
    ELSE DrawCallsOf(doc, n - 1)
         \o [k \in 1..Len(doc.pages[n].draws) |->
                [page |-> n, x |-> doc.pages[n].draws[k].x,
                 y |-> doc.pages[n].draws[k].y,
                 width |-> doc.pages[n].draws[k].width,
                 height |-> doc.pages[n].draws[k].height]]

\* C21: for the same request and the same logo dimensions in hand the two
\* handlers place identically: after each iteration of the first handler's
\* loop, and in the document it returns, the draw calls made so far are
\* exactly those the second handler's loop makes for the pages visited so
\* far, in the same page order and at the same origins and dimensions, and
\* no page beyond the loop index has been drawn on.
C21_SamePlacementEngine ==
    (pc = "loop" \/ (pc = "done" /\ response.hasDocument)) =>
        LET doc == IF pc = "done" THEN response.document ELSE pdfDoc
            n   == IF pc = "done" THEN Len(doc.pages) ELSE i
        IN  /\ DrawCallsOf(doc, n) =
                   SelectSeq(DrawCallsResize(body, doc.pages, logoDims, 1),
                             LAMBDA d : d.page <= n)
            /\ \A p \in (n + 1)..Len(doc.pages) : doc.pages[p].draws = <<>>

\* a per-page run that has returned a two-page document with the logo on
\* page 2 alone, as the second handler's loop has it
C21_Witness_SecondPageOnly ==
    /\ pc = "done"
    /\ response.hasDocument
    /\ body.applyToAll = "false"
    /\ Len(response.document.pages) = 2
    /\ DrawCallsOf(response.document, 2) =
           DrawCallsResize(body, response.document.pages, logoDims, 1)
    /\ Len(DrawCallsOf(response.document, 2)) = 1
    /\ DrawCallsOf(response.document, 2)[1].page = 2

(***************************************************************************)
(* The page component Home (src/app/page.tsx).  The fields of home:        *)
(*   pdfFile, logoFile  the files dropped; a PDF file is identified by its *)
(*                      number of pages, NoFile while there is none        *)
(*   position, applyToAll, pageConfigs, removeBackground                   *)
(*                      the settings; pageConfigs is the Map from page     *)
(*                      numbers to positions                               *)
(*   pageCount, previewPage, pdfPreviewError                               *)
(*                      the preview's state                                *)
(*   pdfDocRef          the document pdfjs loaded last (the file it was    *)
(*                      loaded from)                                       *)
(*   loads              the files whose loadPdf call is awaiting pdfjs     *)
(*   rendered           the pageCount and previewPage of the last render:  *)
(*                      the values on screen, which the event handlers of  *)
(*                      that render close over.  State set by an           *)
(*                      asynchronous callback is rendered in a later task. *)
(*   processing, bgRemovalProgress                                         *)
(*                      the state of the process button                    *)
(*   step               the await processAndDownload is at, "idle" while   *)
(*                      it is not running                                  *)
(* The size and padding sliders stay at their initial values.              *)
(***************************************************************************)
server == <<body, pc, processedLogo, logoDims, pdfDoc, i, pagePosition,
            error, response>>

\* no handler is running
AtRest ==
    /\ body = Request(<<>>, <<0, 0>>, 0, 0, Undefined, Undefined, FALSE, <<>>)
    /\ pc = "json"
    /\ processedLogo = <<0, 0>>
    /\ logoDims = [width |-> Num(0), height |-> Num(0)]
    /\ pdfDoc = [pages |-> <<>>, images |-> <<>>]
    /\ i = 0
    /\ pagePosition = <<>>
    /\ error = "none"
    /\ response = NoResponse

PdfFiles == 1..MaxPages

\* pdf.numPages of the document loaded from file f
numPages(f) == f

\* the positions the user picks
PositionChoices == {"top-right", "bottom-left"}

DefaultSize == 100
DefaultPadding == 30

\* Map.has, Map.get, and new Map(prev) followed by set or delete
MapHas(m, k) == k \in DOMAIN m
MapGet(m, k) == IF k \in DOMAIN m THEN m[k] ELSE Undefined
MapSet(m, k, v) == [n \in (DOMAIN m) \cup {k} |-> IF n = k THEN v ELSE m[n]]
MapDelete(m, k) == [n \in (DOMAIN m) \ {k} |-> m[n]]

LoadFailed == "Failed to load PDF"
RenderFailed == "Invalid page request"

Min(a, b) == IF a <= b THEN a ELSE b
Max(a, b) == IF a >= b THEN a ELSE b

\* the renderPage effect: pdfPreviewError after it has run against the
\* document docRef for the page previewPage
renderPage(docRef, pageCount, previewPage, pdfPreviewError) ==
    IF docRef = NoFile \/ pageCount = 0 THEN pdfPreviewError
    ELSE IF previewPage \in 1..numPages(docRef) THEN pdfPreviewError
    ELSE RenderFailed

\* the last render shows the current pageCount and previewPage
InSync(h) ==
    h.rendered = [pageCount |-> h.pageCount, previewPage |-> h.previewPage]

\* a render of state h, and the renderPage effect when its dependencies
\* [previewPage, pageCount] have changed
Rendered(h) ==
    [h EXCEPT !.rendered = [pageCount |-> h.pageCount,
                            previewPage |-> h.previewPage],
              !.pdfPreviewError =
                  IF InSync(h) THEN @
                  ELSE renderPage(h.pdfDocRef, h.pageCount, h.previewPage, @)]

\* React renders state set outside an event handler in a later task
Render ==
    /\ ~InSync(home)
    /\ home' = Rendered(home)
    /\ UNCHANGED server

\* onPdfDrop, and the effect on [pdfFile]: loadPdf runs up to its first await
onPdfDrop ==
    /\ \E f \in PdfFiles :
          home' = [home EXCEPT !.pdfFile = f,
                               !.pdfPreviewError = Null,
                               !.loads = @ \cup {f}]
    /\ UNCHANGED server

\* onLogoDrop
onLogoDrop ==
    /\ home' = [home EXCEPT !.logoFile = "logo"]
    /\ UNCHANGED server

\* loadPdf after its awaits: pdfjs has loaded the document of one of the
\* files in flight, or has thrown
loadPdf ==
    /\ \E f \in home.loads :
          \/ home' = [home EXCEPT !.loads = @ \ {f},
                                  !.pdfDocRef = f,
                                  !.pageCount = numPages(f),
                                  !.previewPage = 1]
          \/ home' = [home EXCEPT !.loads = @ \ {f},
                                  !.pdfPreviewError = LoadFailed]
    /\ UNCHANGED server

\* the two radio buttons; "Select pages" is disabled while pageCount is 0
setApplyToAll ==
    /\ \E v \in BOOLEAN :
          /\ ~v => home.rendered.pageCount # 0
          /\ home' = [home EXCEPT !.applyToAll = v]
    /\ UNCHANGED server

\* the position buttons, shown in all-pages mode
setPosition ==
    /\ home.applyToAll
    /\ \E pos \in PositionChoices : home' = [home EXCEPT !.position = pos]
    /\ UNCHANGED server

\* the checkbox of a page of the list 1..pageCount on screen
onCheckboxChange ==
    /\ ~home.applyToAll
    /\ \E pageNum \in 1..home.rendered.pageCount :
          LET checked == ~MapHas(home.pageConfigs, pageNum)
          IN  home' = [home EXCEPT !.pageConfigs =
                          IF checked THEN MapSet(@, pageNum, "top-right")
                          ELSE MapDelete(@, pageNum)]
    /\ UNCHANGED server

\* the position select of a selected page of the list
onSelectChange ==
    /\ ~home.applyToAll
    /\ \E pageNum \in 1..home.rendered.pageCount, newPosition \in PositionChoices :
          /\ MapHas(home.pageConfigs, pageNum)
          /\ home' = [home EXCEPT !.pageConfigs = MapSet(@, pageNum, newPosition)]
    /\ UNCHANGED server

\* the state after an event handler that sets previewPage: the re-render at
\* the end of the event, unless a render of earlier state is still pending
AfterClick(h) == IF InSync(home) THEN Rendered(h) ELSE h

\* Prev: shown when pageCount > 1, disabled on page 1
onPrevClick ==
    /\ home.pdfFile # NoFile
    /\ home.rendered.pageCount > 1
    /\ home.rendered.previewPage # 1
    /\ home' = AfterClick([home EXCEPT !.previewPage = Max(1, @ - 1)])
    /\ UNCHANGED server

\* Next: shown when pageCount > 1, disabled on the last page; the updater
\* clamps at the pageCount of the render the handler belongs to
onNextClick ==
    /\ home.pdfFile # NoFile
    /\ home.rendered.pageCount > 1
    /\ home.rendered.previewPage # home.rendered.pageCount
    /\ home' = AfterClick([home EXCEPT !.previewPage =
                              Min(home.rendered.pageCount, @ + 1)])
    /\ UNCHANGED server

InitClient ==
    /\ home = Mounted
    /\ AtRest

NextClient ==
    \/ onPdfDrop
    \/ onLogoDrop
    \/ loadPdf
    \/ Render
    \/ setApplyToAll
    \/ setPosition
    \/ onCheckboxChange
    \/ onSelectChange
    \/ onPrevClick
    \/ onNextClick

SpecClient == InitClient /\ [][NextClient]_vars

(***************************************************************************)
(* The request processAndDownload posts.  Array.from(pageConfigs.entries())*)
(* lists the Map in insertion order, which home does not record: every     *)
(* order of the entries is considered.                                     *)
(***************************************************************************)
\* the pages of the document the file's base64 data encode (US letter)
PdfDataOf(f) == [n \in 1..numPages(f) |-> <<612, 792>>]

LogoDataOf == <<400, 200>>

\* the arrays Array.from(m.entries()).map(...) can be
PageConfigsArrays(m) ==
    LET n == Cardinality(DOMAIN m)
    IN  {[k \in 1..n |-> PageConfig(order[k], m[order[k]])] :
            order \in {o \in [1..n -> DOMAIN m] :
                          \A j, k \in 1..n : o[j] = o[k] => j = k}}

\* the bodies JSON.stringify({pdfData, logoData, size, ...}) can carry
RequestBodies(h) ==
    {Request(PdfDataOf(h.pdfFile), LogoDataOf, DefaultSize, DefaultPadding,
             IF h.applyToAll THEN "true" ELSE "false", h.position, TRUE, arr) :
        arr \in PageConfigsArrays(h.pageConfigs)}

\* the request can be built: the guard of processAndDownload
CanProcess(h) == h.pdfFile # NoFile /\ h.logoFile # Null

\* getPreviewPosition, in the render on screen
getPreviewPosition ==
    IF home.applyToAll THEN home.position
    ELSE LET config == MapGet(home.pageConfigs, home.rendered.previewPage)
         IN  IF ToBoolean(config) THEN config ELSE Null

\* a page of the preview is on screen
PageOnScreen == home.rendered.pageCount >= 1 /\ home.pdfDocRef # NoFile

\* the handler, given body b, draws on page p
ServerDraws(b, p) == p \in 1..Len(b.pdfData) /\ ToBoolean(PagePosition(b, p))

\* C22: the preview agrees with the server's placement plan: in every state
\* of the component in which a preview page is on screen and a request can
\* be built, the preview shows the logo overlay on the page on screen if and
\* only if the handler, given the request built from that state, draws the
\* logo on the page of that number, and then at the position the preview
\* shows.
C22_PreviewAgreesWithServer ==
    (PageOnScreen /\ CanProcess(home)) =>
        \A b \in RequestBodies(home) :
            LET p == home.rendered.previewPage
            IN  /\ ToBoolean(getPreviewPosition) <=> ServerDraws(b, p)
                /\ ServerDraws(b, p) => PagePosition(b, p) = getPreviewPosition

\* the pages the handler, given body b, draws on
PagesDrawn(b) == {p \in 1..Len(b.pdfData) : ServerDraws(b, p)}

\* C23: in select-pages mode every pageNumber of the pageConfigs sent to the
\* server lies in 1..pageCount of the loaded PDF, and the number of pages
\* that receive a logo equals the "N of M pages selected" count
\* (pageConfigs.size), after any sequence of checkbox toggles, position
\* changes and PDF replacements.
C23_SentConfigsWithinDocument ==
    (~home.applyToAll /\ home.pageCount >= 1 /\ CanProcess(home)) =>
        \A b \in RequestBodies(home) :
            /\ \A k \in 1..Len(b.pageConfigs) :
                  b.pageConfigs[k].pageNumber \in 1..home.pageCount
            /\ Cardinality(PagesDrawn(b)) = Cardinality(DOMAIN home.pageConfigs)

\* C24: once every load has settled without error, the preview document
\* handle and pageCount are those of the file selected last, whichever load
\* finished last.
C24_LatestFileWins ==
    (home.pdfFile # NoFile /\ home.loads = {} /\ home.pdfPreviewError = Null) =>
        /\ home.pdfDocRef = home.pdfFile
        /\ home.pageCount = numPages(home.pdfFile)

\* C26: whenever a PDF is loaded with pageCount >= 1, 1 <= previewPage <=
\* pageCount, after any sequence of Prev clicks, Next clicks and PDF
\* replacements, and the preview never requests a page outside the loaded
\* document.
C26_PreviewPageInRange ==
    (home.pdfDocRef # NoFile /\ home.pageCount >= 1) =>
        /\ 1 <= home.previewPage
        /\ home.previewPage <= home.pageCount
        /\ home.pdfPreviewError # RenderFailed

(***************************************************************************)
(* processAndDownload, await by await.  It runs on the values of the       *)
(* render it was clicked in; removeBackground decides its path at the      *)
(* click.  A promise that rejects transfers control to the catch block.    *)
(* The three FileReader promises resolve in reader.onload and have no      *)
(* reject path: when the read fails the await never resumes, and step      *)
(* stays "pending".                                                        *)
(***************************************************************************)
LoadingModel == "Loading background removal model..."
Removing == "Removing background..."

\* `Processing: ${Math.round((current / total) * 100)}%`, as inference advances
Percents == <<"Processing: 0%", "Processing: 50%", "Processing: 100%">>

\* the click on the process button, up to the first await
processAndDownload ==
    /\ CanProcess(home)
    /\ ~home.processing
    /\ home.step = "idle"
    /\ home' = [home EXCEPT !.processing = TRUE,
                            !.bgRemovalProgress =
                                IF home.removeBackground THEN LoadingModel ELSE @,
                            !.step =
                                IF home.removeBackground THEN "import"
                                ELSE "readLogo"]
    /\ UNCHANGED server

\* await import("@imgly/background-removal")
ImportRemoveBg ==
    /\ home.step = "import"
    /\ \/ home' = [home EXCEPT !.bgRemovalProgress = Removing,
                               !.step = "removeBg"]
       \/ home' = [home EXCEPT !.step = "catch"]
    /\ UNCHANGED server

\* the progress callback of removeBg
Progress ==
    /\ home.step = "removeBg"
    /\ \E k \in 1..Len(Percents) :
          /\ \A j \in k..Len(Percents) : home.bgRemovalProgress # Percents[j]
          /\ home' = [home EXCEPT !.bgRemovalProgress = Percents[k]]
    /\ UNCHANGED server

\* await removeBg(logoFile, ...)
RemoveBg ==
    /\ home.step = "removeBg"
    /\ \/ home' = [home EXCEPT !.step = "readBlob"]
       \/ home' = [home EXCEPT !.step = "catch"]
    /\ UNCHANGED server

\* reader.readAsDataURL(blob), then setBgRemovalProgress(null)
ReadBlob ==
    /\ home.step = "readBlob"
    /\ \/ home' = [home EXCEPT !.bgRemovalProgress = Null, !.step = "readPdf"]
       \/ home' = [home EXCEPT !.step = "pending"]
    /\ UNCHANGED server

\* reader.readAsDataURL(logoFile)
ReadLogo ==
    /\ home.step = "readLogo"
    /\ \/ home' = [home EXCEPT !.step = "readPdf"]
       \/ home' = [home EXCEPT !.step = "pending"]
    /\ UNCHANGED server

\* pdfReader.readAsDataURL(pdfFile), the pageConfigs array and the POST
ReadPdf ==
    /\ home.step = "readPdf"
    /\ \/ /\ home' = [home EXCEPT !.step = "fetch"]
          /\ body' \in RequestBodies(home)
       \/ /\ home' = [home EXCEPT !.step = "pending"]
          /\ body' = body
    /\ UNCHANGED <<pc, processedLogo, logoDims, pdfDoc, i, pagePosition,
                   error, response>>

\* await fetch(...): a response that is ok, one that is not, or no response
Fetch ==
    /\ home.step = "fetch"
    /\ \/ home' = [home EXCEPT !.step = "blob"]
       \/ home' = [home EXCEPT !.step = "errorJson"]
       \/ home' = [home EXCEPT !.step = "catch"]
    /\ UNCHANGED server

\* await response.json() and the throw
ErrorJson ==
    /\ home.step = "errorJson"
    /\ home' = [home EXCEPT !.step = "catch"]
    /\ UNCHANGED server

\* await response.blob() and the download
Blob ==
    /\ home.step = "blob"
    /\ \/ home' = [home EXCEPT !.step = "finally"]
       \/ home' = [home EXCEPT !.step = "catch"]
    /\ UNCHANGED server

\* console.error and alert
CatchAlert ==
    /\ home.step = "catch"
    /\ home' = [home EXCEPT !.step = "finally"]
    /\ UNCHANGED server

\* setProcessing(false); setBgRemovalProgress(null)
Finally ==
    /\ home.step = "finally"
    /\ home' = [home EXCEPT !.processing = FALSE,
                            !.bgRemovalProgress = Null,
                            !.step = "idle"]
    /\ UNCHANGED server

\* the background removal checkbox
setRemoveBackground ==
    /\ home' = [home EXCEPT !.removeBackground = ~@]
    /\ UNCHANGED server

\* the Maps pageConfigs can be for a document of n pages
PageConfigMaps(n) ==
    UNION {[pages -> PositionChoices] : pages \in SUBSET (1..n)}

\* both files dropped, the PDF loaded and rendered, settings chosen
InitProcess ==
    /\ \E f \in PdfFiles, a \in BOOLEAN, pos \in PositionChoices :
          \E m \in PageConfigMaps(numPages(f)) :
              home = [Mounted EXCEPT !.pdfFile = f, !.logoFile = "logo",
                                     !.pdfDocRef = f,
                                     !.pageCount = numPages(f),
                                     !.rendered = [pageCount |-> numPages(f),
                                                   previewPage |-> 1],
                                     !.applyToAll = a, !.position = pos,
                                     !.pageConfigs = m]
    /\ AtRest

NextProcess ==
    \/ processAndDownload
    \/ ImportRemoveBg
    \/ Progress
    \/ RemoveBg
    \/ ReadBlob
    \/ ReadLogo
    \/ ReadPdf
    \/ Fetch
    \/ ErrorJson
    \/ Blob
    \/ CatchAlert
    \/ Finally
    \/ setRemoveBackground

SpecProcess == InitProcess /\ [][NextProcess]_vars

\* the event loop runs the continuation of every promise that has settled,
\* and every pending operation other than a failed read settles
SpecProcessFair ==
    /\ SpecProcess
    /\ WF_vars(ImportRemoveBg)
    /\ WF_vars(RemoveBg)
    /\ WF_vars(ReadBlob)
    /\ WF_vars(ReadLogo)
    /\ WF_vars(ReadPdf)
    /\ WF_vars(Fetch)
    /\ WF_vars(ErrorJson)
    /\ WF_vars(Blob)
    /\ WF_vars(CatchAlert)
    /\ WF_vars(Finally)

\* C25: after the process button is clicked with both files present, the
\* processing flag eventually returns to false and bgRemovalProgress to
\* null, whether file reading, background removal and the server request
\* succeed or fail.
C25_ProcessingEventuallyEnds ==
    home.processing ~> (~home.processing /\ home.bgRemovalProgress = Null)

====
